---- MODULE Spec2Model ----
(***************************************************************************)
(* A model of nvd_mirror.py: the synchronisation of the CVE and CPE        *)
(* catalogues of a remote paginated API into two tables of a relational    *)
(* store.  One invocation of main() runs the CVE sweep and then the CPE    *)
(* sweep; the store survives from one invocation to the next.              *)
(*                                                                         *)
(* Time is counted in ticks, TicksPerSec ticks to the second.  Timestamps  *)
(* produced by isoformat_z are whole seconds.                              *)
(*                                                                         *)
(* Spec follows invocations of the script, SpecFair adds the fairness of   *)
(* its steps.  SpecUpsert applies upsert_records, and SpecExtract applies  *)
(* find_cpe_identifier, to inputs drawn from bounded sets.                 *)
(***************************************************************************)
EXTENDS Integers, Sequences, FiniteSets, TLC

\* ------------------------------------------------------------------ bounds
\* ticks per second: the sub-second resolution of datetime.now()
TicksPerSec == 2
\* number of invocations of the script that are followed
MaxRuns == 2
\* largest totalResults the remote reports
MaxTotal == 5
\* number of faults of the environment (calls with a failed request, wrong
\* counts, failed writes) that are followed in one behaviour
MaxFaults == 1

\* ------------------------------------------------------- program constants
RESULTS_PER_PAGE == 2
SLEEP_TIME == 6
INCREMENTAL_END_DELAY_MINUTES == 5
retries == 3
SafetyMarginSeconds == 1

Entities == {"cve", "cpe"}

\* ------------------------------------------------------------- documents
\* A JSON value: a string, a dict (its items in insertion order) or a list.
NoneDoc == [t |-> "none", v |-> "", kv |-> <<>>, xs |-> <<>>]
S(v) == [t |-> "str", v |-> v, kv |-> <<>>, xs |-> <<>>]
D(kv) == [t |-> "dict", v |-> "", kv |-> kv, xs |-> <<>>]
L(xs) == [t |-> "list", v |-> "", kv |-> <<>>, xs |-> xs]
KV(k, d) == [k |-> k, d |-> d]

\* Python truthiness of a value
Truthy(d) ==
    CASE d.t = "none" -> FALSE
      [] d.t = "str" -> d.v # ""
      [] d.t = "dict" -> d.kv # <<>>
      [] OTHER -> d.xs # <<>>

\* k in d
Has(d, k) == d.t = "dict" /\ \E i \in 1..Len(d.kv) : d.kv[i].k = k

\* d.get(k): None when the key is absent
Get(d, k) ==
    IF Has(d, k)
    THEN d.kv[CHOOSE i \in 1..Len(d.kv) : d.kv[i].k = k].d
    ELSE NoneDoc

\* d.get(k, default)
GetOr(d, k, default) == IF Has(d, k) THEN Get(d, k) ELSE default

RECURSIVE SeqFilterKey(_, _)
SeqFilterKey(kv, k) ==
    IF kv = <<>> THEN <<>>
    ELSE IF Head(kv).k = k THEN SeqFilterKey(Tail(kv), k)
         ELSE <<Head(kv)>> \o SeqFilterKey(Tail(kv), k)

\* {id_field: record_id, **record_data}: id_field comes first; a key of the
\* same name in record_data overwrites the value and keeps the position
record_to_db(id_field, record_id, record_data) ==
    D(<<KV(id_field, GetOr(record_data, id_field, record_id))>>
      \o SeqFilterKey(record_data.kv, id_field))

NotFound == [id |-> NoneDoc, data |-> NoneDoc]

RECURSIVE find_cpe_identifier(_)
RECURSIVE FindFirst(_)
\* mutant: the search gives up after the first value, found or not
FindFirst_firstOnly(vals) ==
    IF vals = <<>> THEN NotFound ELSE find_cpe_identifier(Head(vals))

\* the first truthy find_cpe_identifier result over a sequence of values
FindFirst(vals) ==
    IF vals = <<>> THEN NotFound
    ELSE LET r == find_cpe_identifier(Head(vals))
         IN IF Truthy(r.id) THEN r ELSE FindFirst(Tail(vals))

find_cpe_identifier(data) ==
    CASE data.t = "dict" ->
           IF Has(data, "cpeName") THEN [id |-> Get(data, "cpeName"), data |-> data]
           ELSE IF Has(data, "cpe23Uri") THEN [id |-> Get(data, "cpe23Uri"), data |-> data]
           ELSE FindFirst([i \in 1..Len(data.kv) |-> data.kv[i].d])
      [] data.t = "list" -> FindFirst(data.xs)
      [] OTHER -> NotFound

IdField(e) == IF e = "cve" THEN "cve_id" ELSE "cpe_id"

\* the identifier and the payload of one fetched item
Extract(e, record) ==
    IF e = "cve"
    THEN LET record_data == GetOr(record, "cve", record)
         IN [id |-> Get(record_data, "id"), data |-> record_data]
    ELSE find_cpe_identifier(record)

\* record.get("cve", record) and record_data.get("id") raise AttributeError
\* when the item, or the value of its "cve" field, is not a dict
ExtractRaises(e, record) ==
    e = "cve" /\ (record.t # "dict" \/ GetOr(record, "cve", record).t # "dict")

\* whether the loop over the items of a page is left by an exception
BatchRaises(e, results) == \E i \in 1..Len(results) : ExtractRaises(e, results[i])

RECURSIVE BatchRecords(_, _)
\* the batch built from the items of one page; items without identifier are skipped
BatchRecords(e, results) ==
    IF results = <<>> THEN <<>>
    ELSE LET x == Extract(e, Head(results))
             rest == BatchRecords(e, Tail(results))
         IN IF Truthy(x.id) /\ Truthy(x.data)
            THEN <<record_to_db(IdField(e), x.id, x.data)>> \o rest
            ELSE rest


\* ------------------------------------------------------------ Upsert Sink
\* rows of a table: at most one per id
Row(id, json_data, last_modified) ==
    [id |-> id, json_data |-> json_data, last_modified |-> last_modified]

RECURSIVE Values(_, _)
\* the (id, json, now) tuples of the records that carry id_field
Values(records, id_field) ==
    IF records = <<>> THEN <<>>
    ELSE LET record_id == Get(Head(records), id_field)
             rest == Values(Tail(records), id_field)
         IN IF Truthy(record_id)
            THEN <<[id |-> record_id.v, json_data |-> Head(records)]>> \o rest
            ELSE rest

\* rows per INSERT statement issued by execute_values (its default page_size)
ExecutePageSize == 100

\* an INSERT .. ON CONFLICT DO UPDATE statement naming one id twice is rejected
SameStatementConflict(values) ==
    \E i, j \in 1..Len(values) :
        /\ i < j
        /\ values[i].id = values[j].id
        /\ (i - 1) \div ExecutePageSize = (j - 1) \div ExecutePageSize

\* whether upsert_records leaves the table untouched although it had rows to write
PersistenceFailure(records, id_field, dbOk) ==
    LET values == Values(records, id_field)
    IN values # <<>> /\ (~dbOk \/ SameStatementConflict(values))

\* mutant: a plain INSERT, the row of a conflicting id is kept beside the new one
ApplyValues_insertOnly(rows, values, stamp) ==
    rows \cup {Row(values[i].id, values[i].json_data, stamp) : i \in 1..Len(values)}

RECURSIVE ApplyValues_doNothing(_, _, _)
\* mutant: ON CONFLICT DO NOTHING, the row of a conflicting id is left as it is
ApplyValues_doNothing(rows, values, stamp) ==
    IF values = <<>> THEN rows
    ELSE LET v == Head(values)
         IN ApplyValues_doNothing(
                IF \E r \in rows : r.id = v.id THEN rows
                ELSE rows \cup {Row(v.id, v.json_data, stamp)},
                Tail(values), stamp)

\* mutant: the table is replaced by the rows of the batch
ApplyValues_replaceTable(rows, values, stamp) ==
    {Row(values[i].id, values[i].json_data, stamp) : i \in 1..Len(values)}

RECURSIVE ApplyValues(_, _, _)
\* the statements applied in order: the last tuple of an id wins
ApplyValues(rows, values, stamp) ==
    IF values = <<>> THEN rows
    ELSE LET v == Head(values)
         IN ApplyValues({r \in rows : r.id # v.id} \cup {Row(v.id, v.json_data, stamp)},
                        Tail(values), stamp)

\* the table after upsert_records(table, records, id_field) run at time stamp;
\* any database error is logged and swallowed, the table keeps its rows
upsert_records(rows, records, id_field, stamp, dbOk) ==
    IF records = <<>> THEN rows
    ELSE IF PersistenceFailure(records, id_field, dbOk) THEN rows
    ELSE ApplyValues(rows, Values(records, id_field), stamp)

\* ------------------------------------------------------------------ time
Seconds(n) == n * TicksPerSec

\* mutant: the timestamp is rounded up to the next whole second
isoformat_z_roundedUp(dt) == (dt + TicksPerSec - 1) \div TicksPerSec

\* isoformat_z: the timestamp with its microseconds dropped, in whole seconds
isoformat_z(dt) == dt \div TicksPerSec

\* ------------------------------------------------------- Watermark Resolver
SetMax(s) == CHOOSE x \in s : \A y \in s : y <= x

NoStart == [none |-> TRUE, secs |-> 0]

\* mutant: a failing query is not caught as a fall-back to a full sync, the
\* stale start of the window is used
get_last_modified_time_noFallback(rows, force_full, queryOk) ==
    IF force_full THEN NoStart
    ELSE IF rows = {} THEN NoStart
    ELSE LET result == SetMax({r.last_modified : r \in rows})
             safe_start_time == result - Seconds(SafetyMarginSeconds)
         IN [none |-> FALSE, secs |-> isoformat_z(safe_start_time)]

\* get_last_modified_time(table): None for a full sync, else the start of the
\* incremental window
get_last_modified_time(rows, force_full, queryOk) ==
    IF force_full THEN NoStart
    ELSE IF ~queryOk THEN NoStart
    ELSE IF rows = {} THEN NoStart
    ELSE LET result == SetMax({r.last_modified : r \in rows})
             safe_start_time == result - Seconds(SafetyMarginSeconds)
         IN [none |-> FALSE, secs |-> isoformat_z(safe_start_time)]

\* ---------------------------------------------------------------- remote
\* when the script is first run, in seconds
BaseTime == 1000

Item(doc, lastModified) == [doc |-> doc, lastModified |-> lastModified]

CveItem(id) == D(<<KV("cve", D(<<KV("id", S(id)), KV("descriptions", L(<<>>))>>))>>)
CveNoId == D(<<KV("cve", D(<<KV("descriptions", L(<<>>))>>))>>)
CpeItem(id) == D(<<KV("cpe", D(<<KV("deprecated", S("false")), KV("cpeName", S(id))>>))>>)
CpeNoId == D(<<KV("cpe", D(<<KV("deprecated", S("false"))>>))>>)

\* the remote catalogue of an entity type, unchanging, in the remote's order,
\* each item with the remote's own modification time (seconds)
Catalog(e) ==
    IF e = "cve"
    THEN << Item(CveItem("CVE-1"), 100), Item(CveItem("CVE-2"), 200),
            Item(CveNoId, 300), Item(CveItem("CVE-3"), 400),
            Item(CveItem("CVE-4"), 500) >>
    ELSE << Item(CpeItem("cpe:a"), 100), Item(CpeNoId, 200),
            Item(CpeItem("cpe:b"), 300) >>

RECURSIVE InWindow(_, _, _, _)
\* the items whose modification time lies in [lo, hi]; all of them for a full sync
InWindow(items, full, lo, hi) ==
    IF items = <<>> THEN <<>>
    ELSE LET rest == InWindow(Tail(items), full, lo, hi)
         IN IF full \/ (lo <= Head(items).lastModified /\ Head(items).lastModified <= hi)
            THEN <<Head(items)>> \o rest
            ELSE rest

Min(a, b) == IF a <= b THEN a ELSE b

\* the documents the remote serves for startIndex, resultsPerPage, and the window
RemoteItems(e, start, per_page, full, lo, hi) ==
    LET m == InWindow(Catalog(e), full, lo, hi)
        page == SubSeq(m, start + 1, Min(Len(m), start + per_page))
    IN [i \in 1..Len(page) |-> page[i].doc]

\* the number of catalogue items the request matches
RemoteCount(e, full, lo, hi) == Len(InWindow(Catalog(e), full, lo, hi))


\* ------------------------------------------------------------------ state
VARIABLES
    pc,                    \* where the invocation stands
    run,                   \* the number of the invocation
    now,                   \* the clock, in ticks
    apiKey,                \* whether NVD_API_KEY is set
    forceFull,             \* FORCE_FULL_SYNC
    store,                 \* the rows of cve_records and cpe_records
    files,                 \* the files of DATA_DIR and BACKUP_DIR, their timestamps left out
    ent,                   \* the entity type being swept
    is_full_sync,          \* sync_nvd: last_modified_start is None
    last_modified_start,   \* sync_nvd: start of the window, whole seconds
    last_modified_end_str, \* sync_nvd: end of the window, whole seconds
    start_index,           \* sync_nvd: the offset of the page at hand
    all_results,           \* sync_nvd: the items collected by a full sync
    data,                  \* sync_nvd: what fetch_api returned
    resps,                 \* fetch_api: the responses of the attempts of the call under way
    queryFailed,           \* whether the last MAX(last_modified) query raised
    fetched,               \* history: the offsets fetch_api was called with, this sweep
    served,                \* history: the items of the pages fetched, this sweep
    handed,                \* history: the ids handed to upsert_records, this sweep
    processed,             \* history: the status behind each page processed, this sweep
    totals,                \* history: whether one totalResults, and which, was seen this sweep
    honest,                \* history: every page of this sweep reported the true count
    failedPages,           \* history: offsets whose batch failed to persist, this sweep
    saw403,                \* history: a fetch of this invocation was answered 403
    lastCall,              \* history: the time of the last call of this invocation that returned a page
    faults,                \* history: the faults of the environment so far
    sw,                    \* history: per entity, the sweep of this invocation
    prev,                  \* history: per entity, the sweep of the previous invocation
    up,                    \* upsert_records applied to tables and batches of its own
    ex                     \* find_cpe_identifier applied to a record of its own

vars == << pc, run, now, apiKey, forceFull, store, files, ent, is_full_sync,
           last_modified_start, last_modified_end_str, start_index, all_results,
           data, resps, queryFailed, fetched, served, handed, processed, totals,
           honest, failedPages, saw403, lastCall, faults, sw, prev, up, ex >>

\* the variables of the program, and those of the functions applied on their own
progVars == << pc, run, now, apiKey, forceFull, store, files, ent, is_full_sync,
               last_modified_start, last_modified_end_str, start_index, all_results,
               data, resps, queryFailed, fetched, served, handed, processed, totals,
               honest, failedPages, saw403, lastCall, faults, sw, prev >>
fnVars == << up, ex >>

\* what is local to one call of sync_nvd
sweepVars == << is_full_sync, last_modified_start, last_modified_end_str, start_index,
                all_results, data, resps, queryFailed, fetched, served, handed,
                processed, totals, honest, failedPages >>

Responses == {"200", "404", "403", "429", "500", "neterr"}

NoData == [ok |-> FALSE, items |-> <<>>, totalResults |-> 0]
Page(items, totalResults) == [ok |-> TRUE, items |-> items, totalResults |-> totalResults]

\* the totalResults seen in a sweep: none yet, one constant value T, or several
NoTotals == [seen |-> FALSE, const |-> TRUE, T |-> 0]
SeeTotal(h, t) ==
    IF ~h.seen THEN [seen |-> TRUE, const |-> TRUE, T |-> t]
    ELSE IF h.const /\ h.T = t THEN h
    ELSE [seen |-> TRUE, const |-> FALSE, T |-> 0]

NoSweep == [outcome |-> "none", full |-> FALSE, written |-> 0]
NoSweeps == [e \in Entities |-> NoSweep]

\* the elapsed time between two invocations, in ticks
Elapsed == {1, Seconds(400) + 1}

NoCall == [seen |-> FALSE, t |-> 0]

\* the state of the program when main() is entered
ProgramInit ==
    /\ pc = "start"
    /\ run = 1
    /\ now \in {Seconds(BaseTime) + f : f \in 0..(TicksPerSec - 1)}
    /\ apiKey \in BOOLEAN
    /\ forceFull \in BOOLEAN
    /\ store = [e \in Entities |-> {}]
    /\ files = {}
    /\ ent = "cve"
    /\ is_full_sync = TRUE
    /\ last_modified_start = 0
    /\ last_modified_end_str = 0
    /\ start_index = 0
    /\ all_results = <<>>
    /\ data = NoData
    /\ resps = <<>>
    /\ queryFailed = FALSE
    /\ fetched = <<>>
    /\ served = <<>>
    /\ handed = <<>>
    /\ processed = <<>>
    /\ totals = NoTotals
    /\ honest = TRUE
    /\ failedPages = {}
    /\ saw403 = FALSE
    /\ lastCall = NoCall
    /\ faults = 0
    /\ sw = NoSweeps
    /\ prev = NoSweeps

UpIdle == [n |-> 0, rows |-> {}, batch |-> <<>>, dbOk |-> TRUE, once |-> {},
          again |-> FALSE, committed |-> <<>>]
ExIdle == [phase |-> "idle", record |-> NoneDoc, result |-> NotFound]

Init == ProgramInit /\ up = UpIdle /\ ex = ExIdle

\* ---------------------------------------------------------------- actions
\* a step in which the environment misbehaves is charged to the fault budget:
\* a fetch call with failing attempts once, a wrong count once for as long as
\* the remote repeats it
Charge(fault) ==
    /\ fault => faults < MaxFaults
    /\ faults' = IF fault THEN faults + 1 ELSE faults

\* main(), up to the first sweep: the API key check, init_db, cleanup_backups
MainStart(initOk) ==
    /\ pc = "start"
    /\ UNCHANGED fnVars
    /\ pc' = IF ~apiKey THEN "exit" ELSE IF ~initOk THEN "raised" ELSE "resolve"
    /\ Charge(apiKey /\ ~initOk)
    /\ UNCHANGED << run, now, apiKey, forceFull, store, files, ent, sweepVars, saw403, lastCall, sw, prev >>

FirstStartIndex == 0

\* the end of the incremental window
WindowEnd(t) == isoformat_z(t - Seconds(60 * INCREMENTAL_END_DELAY_MINUTES))

\* main() resolving the watermark of the entity and sync_nvd() up to its loop
Resolve(queryOk) ==
    /\ pc = "resolve"
    /\ UNCHANGED fnVars
    /\ LET r == get_last_modified_time(store[ent], forceFull, queryOk)
       IN /\ is_full_sync' = r.none
          /\ last_modified_start' = r.secs
          /\ sw' = [sw EXCEPT ![ent] = [outcome |-> "running", full |-> r.none, written |-> 0]]
    /\ queryFailed' = (~forceFull /\ ~queryOk)
    /\ Charge(~forceFull /\ ~queryOk)
    /\ start_index' = FirstStartIndex
    /\ all_results' = <<>>
    /\ last_modified_end_str' = WindowEnd(now)
    /\ data' = NoData
    /\ resps' = <<>>
    /\ fetched' = <<>>
    /\ served' = <<>>
    /\ handed' = <<>>
    /\ processed' = <<>>
    /\ totals' = NoTotals
    /\ honest' = TRUE
    /\ failedPages' = {}
    /\ pc' = "fetch"
    /\ UNCHANGED << run, now, apiKey, forceFull, store, files, ent, saw403, lastCall, prev >>

\* mutant: a 404 is retried like any other failing status
Classify_404retried(r) ==
    CASE r = "200" -> "page"
      [] r = "403" -> "none"
      [] OTHER -> "retry"

\* how fetch_api treats one response: return the page, return an empty page,
\* return None, or sleep and try again
Classify(r) ==
    CASE r = "200" -> "page"
      [] r = "404" -> "empty"
      [] r = "403" -> "none"
      [] OTHER -> "retry"

\* the seconds fetch_api sleeps after a response it retries
RetrySleep(r) == IF r = "429" THEN SLEEP_TIME * 2 + SLEEP_TIME ELSE SLEEP_TIME

\* mutant: the range of the retry loop is one attempt too long
BudgetSpent_oneMore(attempt) == attempt > retries

\* whether the attempt just made was the last of the budget
BudgetSpent(attempt) == attempt >= retries

\* an item whose field does not hold an object
MalformedItem(e) == D(<<KV(e, S("n/a"))>>)

\* the page with its first item malformed
Malform(e, items) == <<MalformedItem(e)>> \o Tail(items)

\* one attempt of fetch_api(url, params) answered by response r; a 200 carries
\* the page of the catalogue at startIndex, its first item malformed when
\* drift, and reports tot as totalResults
FetchAttempt(r, tot, drift) ==
    /\ pc = "fetch"
    /\ UNCHANGED fnVars
    /\ resps' = Append(resps, r)
    /\ fetched' = IF resps = <<>> THEN Append(fetched, start_index) ELSE fetched
    /\ LET c == Classify(r)
           sent == RemoteItems(ent, start_index, RESULTS_PER_PAGE, is_full_sync,
                               last_modified_start, last_modified_end_str)
           items == IF drift THEN Malform(ent, sent) ELSE sent
           count == RemoteCount(ent, is_full_sync, last_modified_start,
                                last_modified_end_str)
           failed == c = "none" \/ (c = "retry" /\ BudgetSpent(Len(resps) + 1))
       IN /\ drift => (r = "200" /\ sent # <<>>)
          /\ data' = CASE c = "page" -> Page(items, tot)
                       [] c = "empty" -> Page(<<>>, 0)
                       [] OTHER -> NoData
          /\ served' = IF c = "page" THEN served \o items ELSE served
          /\ totals' = CASE c = "page" -> SeeTotal(totals, tot)
                         [] c = "empty" -> SeeTotal(totals, 0)
                         [] OTHER -> totals
          /\ honest' = CASE c = "page" -> honest /\ tot = count
                         [] c = "empty" -> honest /\ count <= start_index
                         [] OTHER -> honest
          /\ now' = IF c = "retry" THEN now + Seconds(RetrySleep(r)) ELSE now
          /\ saw403' = (saw403 \/ r = "403")
          /\ lastCall' = IF c \in {"page", "empty"} THEN [seen |-> TRUE, t |-> now]
                          ELSE lastCall
          /\ Charge(\/ drift
                    \/ r # "200" /\ resps = <<>>
                    \/ r = "200" /\ tot # count
                       /\ ~(totals.seen /\ totals.const /\ totals.T = tot))
          /\ pc' = CASE c \in {"page", "empty"} -> "process"
                     [] failed -> "finish"
                     [] OTHER -> "fetch"
          /\ sw' = IF failed THEN [sw EXCEPT ![ent].outcome = "ABORTED"] ELSE sw
    /\ UNCHANGED << run, apiKey, forceFull, store, files, ent, is_full_sync, last_modified_start,
                    last_modified_end_str, start_index, all_results, queryFailed,
                    handed, processed, failedPages, prev >>

Fetch ==
    \E r \in Responses :
        IF r = "200" THEN \E tot \in 0..MaxTotal, drift \in BOOLEAN : FetchAttempt(r, tot, drift)
        ELSE FetchAttempt(r, 0, FALSE)

\* mutant: the offset is not advanced
NextStartIndex_stalled(si) == si

\* start_index += results_per_page
NextStartIndex(si) == si + RESULTS_PER_PAGE

\* mutant: the exit test is strict
SweepComplete_strict(si, total_results) == si > total_results

\* the exit test of the loop of sync_nvd
SweepComplete(si, total_results) == si >= total_results

RECURSIVE Ids(_, _)
Ids(records, id_field) ==
    IF records = <<>> THEN <<>>
    ELSE <<Get(Head(records), id_field).v>> \o Ids(Tail(records), id_field)

\* <prefix>_page_<start_index>_<timestamp>.json and <prefix>_FULL_<timestamp>.json
PageFile(e, si) == [kind |-> "page", prefix |-> e, start_index |-> si]
DumpFile(e) == [kind |-> "FULL", prefix |-> e, start_index |-> 0]

\* whether the exception of a failed archive write leaves sync_nvd
ArchiveRaises(archOk) == ~archOk

\* sync_nvd() from the archive of the page to the end of the loop body
ProcessPage(archOk, dbOk) ==
    /\ pc = "process"
    /\ UNCHANGED fnVars
    /\ IF ArchiveRaises(archOk)
       THEN /\ pc' = "raised"
            /\ sw' = [sw EXCEPT ![ent].outcome = "RAISED"]
            /\ Charge(TRUE)
            /\ UNCHANGED << run, now, apiKey, forceFull, store, files, ent, sweepVars, saw403, lastCall, prev >>
       ELSE IF BatchRaises(ent, data.items)
       THEN /\ pc' = "raised"
            /\ sw' = [sw EXCEPT ![ent].outcome = "RAISED"]
            /\ files' = files \cup {PageFile(ent, start_index)}
            /\ Charge(FALSE)
            /\ UNCHANGED << run, now, apiKey, forceFull, store, ent, sweepVars, saw403, lastCall, prev >>
       ELSE LET results == data.items
                batch_records == BatchRecords(ent, results)
                lost == PersistenceFailure(batch_records, IdField(ent), dbOk)
                next == NextStartIndex(start_index)
                complete == SweepComplete(next, data.totalResults)
            IN /\ files' = files \cup {PageFile(ent, start_index)}
               /\ all_results' = IF is_full_sync THEN all_results \o results ELSE all_results
               /\ store' = [store EXCEPT ![ent] =
                               upsert_records(@, batch_records, IdField(ent), now, dbOk)]
               /\ handed' = handed \o Ids(batch_records, IdField(ent))
               /\ processed' = Append(processed, resps[Len(resps)])
               /\ failedPages' = IF lost THEN failedPages \cup {start_index} ELSE failedPages
               /\ start_index' = next
               /\ pc' = IF complete THEN "finish" ELSE "fetch"
               /\ now' = IF complete THEN now ELSE now + Seconds(SLEEP_TIME)
               /\ sw' = [sw EXCEPT ![ent].outcome = IF complete THEN "DONE" ELSE @,
                                   ![ent].written = IF lost THEN @ ELSE @ + 1]
               /\ data' = NoData
               /\ resps' = <<>>
               /\ Charge(lost)
               /\ UNCHANGED << run, apiKey, forceFull, ent, is_full_sync, last_modified_start,
                               last_modified_end_str, queryFailed, fetched, served, totals,
                               honest, saw403, lastCall, prev >>

Process == \E archOk, dbOk \in BOOLEAN : ProcessPage(archOk, dbOk)

\* what main() does when a sweep has returned: the next sweep, or the end
AfterSweep(e) == IF e = "cve" THEN "resolve" ELSE "done"

\* sync_nvd() after its loop (the full dump), and main() up to the next sweep
Finish(dumpOk) ==
    /\ pc = "finish"
    /\ UNCHANGED fnVars
    /\ IF is_full_sync /\ all_results # <<>> /\ ~dumpOk
       THEN pc' = "raised" /\ ent' = ent /\ files' = files /\ Charge(TRUE)
       ELSE /\ pc' = AfterSweep(ent)
            /\ ent' = IF ent = "cve" THEN "cpe" ELSE ent
            /\ files' = IF is_full_sync /\ all_results # <<>>
                         THEN files \cup {DumpFile(ent)} ELSE files
            /\ Charge(FALSE)
    /\ UNCHANGED << run, now, apiKey, forceFull, store, sweepVars, saw403, lastCall, sw, prev >>

\* the process is terminated (a signal, a power cut) between two steps
Interrupt ==
    /\ pc \in {"resolve", "fetch", "process", "finish"}
    /\ UNCHANGED fnVars
    /\ pc' = "killed"
    /\ Charge(FALSE)
    /\ sw' = [sw EXCEPT ![ent].outcome = IF @ = "running" THEN "KILLED" ELSE @]
    /\ UNCHANGED << run, now, apiKey, forceFull, store, files, ent, sweepVars, saw403, lastCall, prev >>

\* the operator runs the script again, some time later
Restart(elapsed) ==
    /\ pc \in {"done", "killed", "raised", "exit"}
    /\ UNCHANGED fnVars
    /\ run < MaxRuns
    /\ run' = run + 1
    /\ now' = now + elapsed
    /\ pc' = "start"
    /\ ent' = "cve"
    /\ prev' = sw
    /\ sw' = NoSweeps
    /\ saw403' = FALSE
    /\ lastCall' = NoCall
    /\ is_full_sync' = TRUE
    /\ last_modified_start' = 0
    /\ last_modified_end_str' = 0
    /\ start_index' = 0
    /\ all_results' = <<>>
    /\ data' = NoData
    /\ resps' = <<>>
    /\ queryFailed' = FALSE
    /\ fetched' = <<>>
    /\ served' = <<>>
    /\ handed' = <<>>
    /\ processed' = <<>>
    /\ totals' = NoTotals
    /\ honest' = TRUE
    /\ failedPages' = {}
    /\ UNCHANGED << apiKey, forceFull, store, files, faults >>

Next ==
    \/ \E initOk \in BOOLEAN : MainStart(initOk)
    \/ \E queryOk \in BOOLEAN : Resolve(queryOk)
    \/ Fetch
    \/ Process
    \/ \E dumpOk \in BOOLEAN : Finish(dumpOk)
    \/ Interrupt
    \/ \E elapsed \in Elapsed : Restart(elapsed)

Spec == Init /\ [][Next]_vars

\* a step of the loop of sync_nvd: a fetch attempt or the processing of a page
LoopStep == pc \in {"fetch", "process"} /\ pc' # "killed"

\* weak fairness of the steps of the loop.  Such a step is possible exactly
\* when pc is in the loop (a fetch attempt can always be answered, a page can
\* always be processed), so ENABLED is written as that test of pc
LoopFairness == []<>(pc \notin {"fetch", "process"}) \/ []<><<LoopStep>>_vars

\* the script is single-threaded and every call it makes returns or raises
\* (requests.get has a timeout, time.sleep returns): while the process is not
\* terminated it takes its next step
SpecFair ==
    /\ Spec
    /\ WF_vars(\E initOk \in BOOLEAN : MainStart(initOk))
    /\ WF_vars(\E queryOk \in BOOLEAN : Resolve(queryOk))
    /\ WF_vars(\E dumpOk \in BOOLEAN : Finish(dumpOk))
    /\ LoopFairness

TypeOK ==
    /\ pc \in {"start", "resolve", "fetch", "process", "finish", "done", "exit",
               "killed", "raised"}
    /\ run \in 1..MaxRuns
    /\ ent \in Entities
    /\ Len(resps) <= retries

\* ------------------------------------------- upsert_records on its own
\* number of applications of upsert_records that are followed
MaxUpserts == 3
\* longest batch handed to upsert_records
MaxBatch == 2

UpIdField == "cve_id"

\* a record as sync_nvd hands it to upsert_records: {id_field: id, **payload}
UpRecord(id, p) == record_to_db(UpIdField, S(id), D(<<KV("v", S(p))>>))

\* the records of the batches: two ids with two payloads each, and a record
\* that does not carry id_field
UpRecords ==
    {UpRecord(id, p) : id \in {"a", "b"}, p \in {"p", "q"}} \cup {D(<<KV("v", S("p"))>>)}

UpBatches == UNION {[1..n -> UpRecords] : n \in 0..MaxBatch}

\* the record up after upsert_records(table, batch, id_field) ran as application
\* number up.n + 1, the clock reading up.n; committed is the log of the tuples
\* of the statements that were committed
UpAfter(batch, dbOk, again) ==
    LET values == Values(batch, UpIdField)
        rows2 == upsert_records(up.rows, batch, UpIdField, up.n, dbOk)
        lost == PersistenceFailure(batch, UpIdField, dbOk)
    IN [n |-> up.n + 1, rows |-> rows2, batch |-> batch, dbOk |-> dbOk,
        once |-> IF again THEN up.once ELSE rows2,
        again |-> again,
        committed |-> IF lost THEN up.committed
                      ELSE up.committed \o
                           [i \in 1..Len(values) |->
                               Row(values[i].id, values[i].json_data, up.n)]]

\* upsert_records is called with a batch
UpsertBatch(batch, dbOk) ==
    /\ up.n < MaxUpserts
    /\ up' = UpAfter(batch, dbOk, FALSE)
    /\ UNCHANGED << progVars, ex >>

\* upsert_records is called once more with the batch of the last call, the
\* database being as it was
UpsertAgain ==
    /\ up.n > 0
    /\ up.n < MaxUpserts
    /\ ~up.again
    /\ up' = UpAfter(up.batch, up.dbOk, TRUE)
    /\ UNCHANGED << progVars, ex >>

UpInit ==
    /\ ProgramInit
    /\ now = Seconds(BaseTime)
    /\ apiKey
    /\ forceFull
    /\ up = UpIdle
    /\ ex = ExIdle

UpNext ==
    \/ \E batch \in UpBatches, dbOk \in BOOLEAN : UpsertBatch(batch, dbOk)
    \/ UpsertAgain

SpecUpsert == UpInit /\ [][UpNext]_vars
\* ---------------------------------------- find_cpe_identifier on its own
\* longest list inside a record
MaxItems == 2

\* the values of the fields of a record: a string that is no identifier, the
\* values of cpeName (one of them empty) and the value of cpe23Uri
ExLeaves == {S("x")}
NameIds == {S("n1"), S("")}
UriIds == {S("u1")}

\* the items a dict may hold: cpeName, cpe23Uri, and a field k holding a value
ExEntries(sub) ==
    {KV("cpeName", v) : v \in NameIds} \cup {KV("cpe23Uri", v) : v \in UriIds}
        \cup {KV("k", d) : d \in sub}

\* the dicts of up to two items, in either order
ExDicts(sub) ==
    {D(<<>>)} \cup {D(<<e>>) : e \in ExEntries(sub)}
        \cup {D(<<p[1], p[2]>>) :
                 p \in {q \in ExEntries(sub) \X ExEntries(sub) : q[1].k # q[2].k}}

ExLists(sub) == {L(xs) : xs \in UNION {[1..n -> sub] : n \in 0..MaxItems}}

ExDocs1 == ExLeaves \cup ExDicts(ExLeaves) \cup ExLists(ExLeaves)
ExDocs2 == ExDocs1 \cup ExDicts(ExDocs1) \cup ExLists(ExDocs1)

\* the records find_cpe_identifier is called with: dicts three levels deep
ExRecords == ExDicts(ExDocs2)

\* find_cpe_identifier(record) is called and returns
ExtractCall ==
    /\ ex.phase = "called"
    /\ ex' = [ex EXCEPT !.phase = "returned", !.result = find_cpe_identifier(ex.record)]
    /\ UNCHANGED << progVars, up >>

ExInit ==
    /\ ProgramInit
    /\ now = Seconds(BaseTime)
    /\ apiKey
    /\ forceFull
    /\ up = UpIdle
    /\ \E record \in ExRecords : ex = [phase |-> "called", record |-> record, result |-> NotFound]

ExNext == ExtractCall

SpecExtract == ExInit /\ [][ExNext]_vars

\* ------------------------------------------------------- claims: helpers
Last(seq) == seq[Len(seq)]

IdsIn(rows) == {r.id : r \in rows}

SeqToSet(seq) == {seq[i] : i \in 1..Len(seq)}

\* the batch sync_nvd builds from the page of the current sweep at offset o
PageBatch(o) ==
    BatchRecords(ent, RemoteItems(ent, o, RESULTS_PER_PAGE, is_full_sync,
                                  last_modified_start, last_modified_end_str))

\* some record of the batch of the page at offset o has no row in the table
BatchMissing(o) ==
    \E id \in SeqToSet(Ids(PageBatch(o), IdField(ent))) : id \notin IdsIn(store[ent])

Interrupted == {"KILLED", "ABORTED", "RAISED"}

\* the (id, payload) pairs of a table
Payloads(rows) == {[id |-> r.id, json_data |-> r.json_data] : r \in rows}

\* the (id, payload) pairs one uninterrupted full sweep of the catalogue writes
FullSweepPayloads(e) ==
    LET docs == [i \in 1..Len(Catalog(e)) |-> Catalog(e)[i].doc]
    IN SeqToSet(Values(BatchRecords(e, docs), IdField(e)))

\* the identifier the catalogue gave an item, read where the catalogue put it
CatalogId(e, doc) ==
    IF e = "cve" THEN Get(Get(doc, "cve"), "id") ELSE Get(Get(doc, "cpe"), "cpeName")

RECURSIVE IdentifiedIds(_, _)
\* the identifiers of the items that have one, in order
IdentifiedIds(e, docs) ==
    IF docs = <<>> THEN <<>>
    ELSE IF CatalogId(e, Head(docs)).t = "str" /\ CatalogId(e, Head(docs)).v # ""
         THEN <<CatalogId(e, Head(docs)).v>> \o IdentifiedIds(e, Tail(docs))
         ELSE IdentifiedIds(e, Tail(docs))

\* max(1, ceil(T / P))
PagesFor(T) ==
    IF T = 0 THEN 1 ELSE (T + RESULTS_PER_PAGE - 1) \div RESULTS_PER_PAGE

\* ------------------------------------------------------------------ claims
\* C1: when the upsert of a page's batch fails to persist, the sweep does not
\* advance past that page: while the batch is missing from the store the
\* offset stays at the page, no later offset is fetched and the sweep is not
\* reported complete.
C1_NoAdvancePastFailedBatch ==
    \A o \in failedPages :
        BatchMissing(o) =>
            /\ start_index <= o
            /\ \A i \in 1..Len(fetched) : fetched[i] <= o
            /\ sw[ent].outcome # "DONE"

\* C2: a full sweep interrupted after the batches of k pages were written is
\* resumed by the full sweep of the next invocation at offset k * pageSize:
\* its first page request carries startIndex = k * pageSize.
C2_ResumesAtWrittenOffset ==
    \A e \in Entities :
        ( /\ run > 1
          /\ prev[e].full
          /\ prev[e].outcome \in Interrupted
          /\ ent = e
          /\ sw[e].outcome # "none"
          /\ is_full_sync
          /\ fetched # <<>> )
        => fetched[1] = prev[e].written * RESULTS_PER_PAGE

\* C3: for an unchanging catalogue and either setting of FORCE_FULL_SYNC, a
\* full sweep interrupted after page k followed by an invocation whose sweep
\* runs to DONE leaves the table with the (id, payload) rows of one
\* uninterrupted full sweep.
C3_SameRowsAsUninterrupted ==
    \A e \in Entities :
        ( /\ run > 1
          /\ prev[e].full
          /\ prev[e].outcome \in Interrupted
          /\ ent = e
          /\ pc = "finish"
          /\ sw[e].outcome = "DONE"
          /\ honest
          /\ failedPages = {} )
        => Payloads(store[e]) = FullSweepPayloads(e)

\* C4: in a sweep whose fetches all succeed and report one constant total T,
\* the pages fetched are those at offsets 0, P, 2P, ..., there are exactly
\* max(1, ceil(T / P)) of them when the loop ends, every item of a fetched
\* page that has an identifier is handed to the upsert, and the loop ends DONE.
C4_PagesOfConstantTotal ==
    ( /\ pc \in {"fetch", "process", "finish"}
      /\ sw[ent].outcome \in {"running", "DONE"}
      /\ totals.const )
    => /\ \A i \in 1..Len(fetched) : fetched[i] = (i - 1) * RESULTS_PER_PAGE
       /\ totals.seen => Len(fetched) <= PagesFor(totals.T)
       /\ handed \o (IF pc = "process" THEN IdentifiedIds(ent, data.items) ELSE <<>>)
            = IdentifiedIds(ent, served)
       /\ pc = "finish" =>
            /\ sw[ent].outcome = "DONE"
            /\ Len(fetched) = PagesFor(totals.T)
            /\ Len(processed) = Len(fetched)

\* a three-page sweep of the CVE catalogue (5 items, 4 with an identifier) has ended
C4_Witness ==
    /\ pc = "finish"
    /\ ent = "cve"
    /\ sw[ent].outcome = "DONE"
    /\ totals.seen /\ totals.const /\ totals.T = Len(Catalog("cve"))
    /\ Len(fetched) = PagesFor(Len(Catalog("cve")))
    /\ Len(fetched) > 1
    /\ Len(handed) = Len(Catalog("cve")) - 1

TerminalStatus == {"200", "404", "403"}

\* C5: one fetch call stops at the first 200, 404 or 403 and otherwise makes
\* exactly `retries` (3) attempts: 429, other statuses and network errors
\* share the budget, and there is no further attempt.
C5_FetchAttempts ==
    /\ Len(resps) <= retries
    /\ \A i \in 1..(Len(resps) - 1) : resps[i] \notin TerminalStatus
    /\ (pc = "fetch" /\ resps # <<>>) =>
            Last(resps) \notin TerminalStatus /\ Len(resps) < retries
    /\ pc = "process" => resps # <<>> /\ Last(resps) \in {"200", "404"} /\ data.ok
    /\ (pc = "finish" /\ resps # <<>>) =>
            /\ ~data.ok
            /\ sw[ent].outcome = "ABORTED"
            /\ \/ Last(resps) = "403"
               \/ Len(resps) = retries /\ Last(resps) \notin TerminalStatus

\* the call answered 429, 429, 200 has returned its page after three attempts
C5_Witness ==
    /\ pc = "process"
    /\ resps = <<"429", "429", "200">>
    /\ data.ok


\* C6: a 403 is fatal to the whole run: once a fetch of the invocation was
\* answered 403, no further request is issued in that invocation (the sweep
\* of the second entity type is not started).
C6_NoRequestAfter403 ==
    [][saw403 => (resps' = resps \/ resps' = <<>>)]_vars

\* the invocation has come to its end, without being terminated from outside
InvocationEnded == pc \in {"done", "raised"}

\* the CVE sweep of the invocation was aborted or raised an exception
CveSweepFailed ==
    \/ sw["cve"].outcome \in {"ABORTED", "RAISED"}
    \/ pc = "raised" /\ ent = "cve" /\ sw["cve"].outcome # "none"

\* C7: a failure of the CVE sweep (aborted on exhausted retries, a batch that
\* failed to persist, a failed archive write or a failed dump) does not keep
\* the CPE sweep from starting.
C7_CpeSweepStartsAfterCveFailure ==
    (InvocationEnded /\ CveSweepFailed) => sw["cpe"].outcome # "none"

\* C8: a 404 is an empty result: the fetch returns a page of no item and total
\* 0 at once, and processing that page leaves the store as it is, fetches no
\* further page and ends the sweep DONE, never ABORTED.
C8_NotFoundIsEmptyPage ==
    [][ /\ (resps' # resps /\ resps' # <<>> /\ Last(resps') = "404") =>
              /\ pc' = "process"
              /\ data' = Page(<<>>, 0)
        /\ (pc = "process" /\ Last(resps) = "404" /\ pc' \notin {"killed", "raised"}) =>
              /\ store' = store
              /\ handed' = handed
              /\ pc' = "finish"
              /\ sw'[ent].outcome = "DONE" ]_vars

\* a sweep has ended DONE on a 404 at an offset other than 0
C8_Witness ==
    /\ pc = "finish"
    /\ sw[ent].outcome = "DONE"
    /\ Len(processed) > 1
    /\ Last(processed) = "404"
    /\ Len(fetched) = Len(processed)

\* C9: the resolver returns None exactly when FORCE_FULL_SYNC is set, the
\* table has no rows or the MAX(last_modified) query fails, returns a start
\* time in every other case, and never raises.
C9_ResolverNoneExactly ==
    [][(pc = "resolve" /\ pc' # "killed") =>
          /\ pc' = "fetch"
          /\ (is_full_sync' <=> (forceFull \/ store[ent] = {} \/ queryFailed')) ]_vars

\* the watermark of a table with rows has just been resolved
JustResolved == pc = "fetch" /\ fetched = <<>> /\ resps = <<>>

\* a start time was returned for a table with rows
C9_Witness == JustResolved /\ ~is_full_sync /\ store[ent] # {} /\ ~forceFull

\* the maximum last_modified of the table of the entity, in ticks
MaxLastModified == SetMax({r.last_modified : r \in store[ent]})

\* C10 as claimed: the start time is less than the maximum last_modified T by
\* exactly the safety margin of 1 second, for every T.
C10_StartIsExactlyMarginBefore ==
    (JustResolved /\ ~is_full_sync) =>
        Seconds(last_modified_start) = MaxLastModified - Seconds(SafetyMarginSeconds)

\* C10 as amended: the start time is T with its fraction of a second dropped,
\* less 1 second: at least the margin before T and less than a second more.
C10_StartIsMarginBeforeTruncated ==
    (JustResolved /\ ~is_full_sync) =>
        /\ Seconds(last_modified_start) <= MaxLastModified - Seconds(SafetyMarginSeconds)
        /\ Seconds(last_modified_start) > MaxLastModified - Seconds(SafetyMarginSeconds + 1)

\* a start time was resolved from a T that is not a whole second
C10_Witness ==
    /\ JustResolved
    /\ ~is_full_sync
    /\ MaxLastModified % TicksPerSec # 0

\* the tuples of the log of committed statements that name id
CommittedFor(id) == {i \in 1..Len(up.committed) : up.committed[i].id = id}

\* C11: applying upsert_records to the same batch a second time leaves the
\* table as the first application left it: the same number of rows, the same
\* ids and, for each id, the same payload.
C11_UpsertIdempotent ==
    up.again =>
        /\ Cardinality(up.rows) = Cardinality(up.once)
        /\ IdsIn(up.rows) = IdsIn(up.once)
        /\ Payloads(up.rows) = Payloads(up.once)

\* a batch of two records was committed and then applied a second time
C11_Witness ==
    /\ up.again
    /\ up.dbOk
    /\ Len(Values(up.batch, UpIdField)) = 2
    /\ Cardinality(up.rows) = 2

\* C16: after any sequence of upserts a table has at most one row per id, and
\* the row of an id carries the payload and the last_modified of the most
\* recent committed upsert that contained the id.
C16_OneRowPerIdLastWriteWins ==
    /\ \A r1, r2 \in up.rows : r1.id = r2.id => r1 = r2
    /\ \A r \in up.rows :
           /\ CommittedFor(r.id) # {}
           /\ r = up.committed[SetMax(CommittedFor(r.id))]
    /\ \A i \in 1..Len(up.committed) : up.committed[i].id \in IdsIn(up.rows)

\* an id was written by two committed upserts with different payloads
C16_Witness ==
    \E i, j \in 1..Len(up.committed) :
        /\ i < j
        /\ up.committed[i].id = up.committed[j].id
        /\ up.committed[i].json_data # up.committed[j].json_data
        /\ up.committed[i].last_modified < up.committed[j].last_modified

RECURSIVE ValuesOf(_, _)
\* the values the field named key holds anywhere in a document
ValuesOf(doc, key) ==
    CASE doc.t = "dict" ->
           {doc.kv[i].d : i \in {j \in 1..Len(doc.kv) : doc.kv[j].k = key}}
               \cup UNION {ValuesOf(doc.kv[i].d, key) : i \in 1..Len(doc.kv)}
      [] doc.t = "list" -> UNION {ValuesOf(doc.xs[i], key) : i \in 1..Len(doc.xs)}
      [] OTHER -> {}

\* the identifiers a document holds anywhere, under either field name
Candidates(doc) == ValuesOf(doc, "cpeName") \cup ValuesOf(doc, "cpe23Uri")

TopLevelId(doc) == Has(doc, "cpeName") \/ Has(doc, "cpe23Uri")

\* every identifier field of the document holds an identifier, not an empty value
IdsNotEmpty(doc) == \A c \in Candidates(doc) : Truthy(c)

C13_NamePreferredOverDepth ==
    ( /\ ex.phase = "returned"
      /\ IdsNotEmpty(ex.record)
      /\ ValuesOf(ex.record, "cpeName") # {} ) =>
        ex.result.id \in ValuesOf(ex.record, "cpeName")

\* the checkpoint files of an entity type among the files the program wrote
CheckpointFiles(e) == {f \in files : f.kind = "checkpoint" /\ f.prefix = e}

\* C14: during a full sweep the checkpoint is saved with the current offset
\* before each page fetch, so when a fetch is about to be made, and when the
\* sweep has ended ABORTED, a checkpoint holding the offset of the page exists.
C14_CheckpointSavedBeforeFetch ==
    ( /\ is_full_sync
      /\ \/ pc = "fetch"
         \/ pc = "finish" /\ sw[ent].outcome = "ABORTED" ) =>
        \E f \in CheckpointFiles(ent) : f.start_index = start_index

\* C15: the checkpoint of a full sweep is present after every page that is
\* not the last, and is absent once the sweep has seen next_offset >=
\* total_count and ended DONE.
C15_CheckpointClearedOnlyWhenDone ==
    /\ ( /\ is_full_sync
         /\ pc = "fetch"
         /\ sw[ent].outcome = "running"
         /\ start_index > FirstStartIndex ) => CheckpointFiles(ent) # {}
    /\ \A e \in Entities : sw[e].outcome = "DONE" => CheckpointFiles(e) = {}

\* no identifier can be extracted from the item
NoIdentifier(e, item) ==
    \/ ExtractRaises(e, item)
    \/ ~(Truthy(Extract(e, item).id) /\ Truthy(Extract(e, item).data))

\* C17: an item from which no identifier can be extracted is dropped and
\* does not abort the batch: when a page holding such an item is processed
\* and the environment does not fail, the items of the page that have an
\* identifier are upserted and the sweep goes on with its loop.
C17_ItemWithoutIdIsDropped ==
    [][ ( /\ pc = "process"
          /\ pc' # "killed"
          /\ faults' = faults
          /\ \E i \in 1..Len(data.items) : NoIdentifier(ent, data.items[i]) ) =>
            /\ pc' \in {"fetch", "finish"}
            /\ \A id \in SeqToSet(IdentifiedIds(ent, data.items)) :
                   \E r \in store'[ent] : r.id = id /\ r.last_modified = now ]_vars

\* C18: the sweep does not depend on the archive: whether or not the archive
\* of a page can be written, the records of the page are extracted and handed
\* to the upsert and the sweep goes on with its loop.
C18_SweepIndependentOfArchive ==
    [][ ( /\ pc = "process"
          /\ pc' # "killed"
          /\ ~BatchRaises(ent, data.items) ) =>
            /\ pc' \in {"fetch", "finish"}
            /\ handed' = handed \o IdentifiedIds(ent, data.items) ]_vars

\* C19: between any two consecutive successful remote calls of one
\* invocation, the last call of the first sweep and the first call of the
\* second included, at least SLEEP_TIME elapses.
C19_PacingIsGlobal ==
    [][ (pc = "fetch" /\ pc' = "process" /\ lastCall.seen) =>
            now' - lastCall.t >= Seconds(SLEEP_TIME) ]_vars

\* C20: every sweep terminates: a fetch makes at most `retries` attempts, the
\* offset grows by the page size in every iteration of the loop, the pages
\* fetched are never more than those of the largest total, a sweep is started
\* once per entity type and invocation, and a sweep that has started ends, DONE
\* or ABORTED unless an exception or the end of the process ends it first.
C20_SweepTerminates ==
    /\ [](Len(resps) <= retries /\ Len(fetched) <= PagesFor(MaxTotal))
    /\ [][ /\ (pc = "process" /\ pc' \in {"fetch", "finish"}) =>
                start_index' = start_index + RESULTS_PER_PAGE
           /\ (pc = "fetch" /\ pc' # "finish") => start_index' = start_index
           /\ (pc = "resolve" /\ pc' = "fetch") => sw[ent].outcome = "none" ]_vars
    /\ \A e \in Entities :
           (sw[e].outcome = "running") ~>
               (sw[e].outcome \in {"DONE", "ABORTED"} \/ pc \in {"raised", "killed"})

\* in one invocation a sweep ended ABORTED after the retry budget of a fetch
\* was spent, and the other ended DONE after two pages
C20_Witness ==
    /\ sw["cve"].outcome = "ABORTED"
    /\ ~saw403
    /\ sw["cpe"].outcome = "DONE"
    /\ Len(fetched) = 2

\* C21: in every incremental sweep the window sent to the remote is well
\* formed: lastModStartDate (the maximum last_modified of the table less the
\* margin) is not later than lastModEndDate (the start of the sweep less the
\* delay), whatever the time since the last write of the previous run.
C21_WindowStartNotAfterEnd ==
    (pc \in {"fetch", "process"} /\ ~is_full_sync) =>
        last_modified_start <= last_modified_end_str

\* C22: no step removes a row from a table: the set of ids of each table
\* never loses an element, over full and incremental sweeps, ended or not.
C22_IdsNeverRemoved ==
    [][\A e \in Entities : IdsIn(store[e]) \subseteq IdsIn(store'[e])]_vars

\* an incremental sweep of a later invocation has ended DONE without having
\* been served the records the table holds
C22_Witness ==
    \E e \in Entities :
        /\ run > 1
        /\ sw[e].outcome = "DONE"
        /\ ~sw[e].full
        /\ e = ent
        /\ served = <<>>
        /\ Cardinality(IdsIn(store[e])) >= 2

====
